---- MODULE Spec2Model ----
(***************************************************************************)
(* A model of src/data/inference.py: the whole-collection transforms that  *)
(* reconcile vaccination counts (deaggregation by interpolation, aggregate *)
(* suppression, cumulative conversion, forecasting, dose timing).          *)
(*                                                                         *)
(* Dates are day numbers counted from 2021-01-01 (day 0), so a timedelta   *)
(* is an integer and 2021-01-09 is day 8.  A collection is a sequence of   *)
(* Vaccinated records.  Every transform is a pure function of its          *)
(* argument; an action applies one transform to the input `vaccinated`     *)
(* and stores what it returns, or records the exception it raises.         *)
(***************************************************************************)
EXTENDS Integers, Sequences, FiniteSets, TLC

VARIABLES
    vaccinated,    \* the argument list handed to the transform
    op,            \* the transform being run: "init" before any call
    status,        \* "none" | "running" | "returned" | an exception name
    result,        \* the collection the (first) call returned
    result2,       \* the collection a second, chained call returned
    dim,           \* add_deaggregates: index of the loop variable `dim`
    dates_left,    \* add_deaggregates: real_dates not yet visited for `dim`
    aggs_left,     \* add_deaggregates: aggregates not yet visited for the date
    aggregate,     \* add_deaggregates: the loop variable `aggregate`
    emitted,       \* what deaggregate_with_interpolation yielded for it
    deaggregates   \* add_deaggregates: the list `deaggregates`

vars == <<vaccinated, op, status, result, result2, dim, dates_left,
          aggs_left, aggregate, emitted, deaggregates>>

loopvars == <<dim, dates_left, aggs_left, aggregate, emitted, deaggregates>>

(***************************************************************************)
(* Bounds of the model.                                                    *)
(***************************************************************************)
MaxLenFilter == 2
MaxLenCumul == 3
MaxLenLag == 3
MaxLenWait == 3
MaxLenExtrap == 3
MaxDaily == 2

(***************************************************************************)
(* The record types of data/types.py, as the source uses them.             *)
(***************************************************************************)
ALL == "all"
DOSE_1 == "dose_1"
DOSE_2 == "dose_2"
DOSE_2_PLUS_WAIT == "dose_2_plus_wait"

IsAll(x) == x = ALL

Source(origin, data_date, real_date, period) ==
    [origin |-> origin, data_date |-> data_date,
     real_date |-> real_date, period |-> period]

Slice(dose, group, location) ==
    [dose |-> dose, group |-> group, location |-> location]

Vaccinated(source, n, slice, extrapolated, interpolated) ==
    [source |-> source, vaccinated |-> n, slice |-> slice,
     extrapolated |-> extrapolated, interpolated |-> interpolated]

\* A reported (not synthesized) observation whose two dates agree.
Reported(period, day, n, dose, group, location) ==
    Vaccinated(Source("real", day, day, period), n,
               Slice(dose, group, location), FALSE, FALSE)

__SLICE_DIMS == <<"dose", "group", "location">>
__FIRST_DAILY_DATA == 8

SeqsUpTo(S, n) == UNION {[1..k -> S] : k \in 0..n}

Range(s) == {s[i] : i \in 1..Len(s)}

(***************************************************************************)
(* remove_aggregates                                                       *)
(***************************************************************************)
\* The three `continue` tests of the loop body, in the order the code makes them.
SkippedMutCutover(v) ==
    IF IsAll(v.slice.group) \/ IsAll(v.slice.dose) THEN TRUE
    ELSE IF ~IsAll(v.slice.location) THEN TRUE
    ELSE IF v.source.real_date > __FIRST_DAILY_DATA /\ v.source.period = "weekly"
         THEN TRUE
    ELSE FALSE

Skipped(v) ==
    IF IsAll(v.slice.group) \/ IsAll(v.slice.dose) THEN TRUE
    ELSE IF ~IsAll(v.slice.location) THEN TRUE
    ELSE IF v.source.real_date >= __FIRST_DAILY_DATA /\ v.source.period = "weekly"
         THEN TRUE
    ELSE FALSE

\* A removal made while iterating over the list itself: the element that
\* follows a removed one is never visited.
RECURSIVE remove_aggregatesMutInPlace(_)
remove_aggregatesMutInPlace(vs) ==
    IF vs = <<>> THEN <<>>
    ELSE IF Skipped(Head(vs))
         THEN IF Len(vs) = 1 THEN <<>>
              ELSE <<vs[2]>> \o remove_aggregatesMutInPlace(Tail(Tail(vs)))
         ELSE <<Head(vs)>> \o remove_aggregatesMutInPlace(Tail(vs))

RECURSIVE remove_aggregates(_)
remove_aggregates(vs) ==
    IF vs = <<>> THEN <<>>
    ELSE IF Skipped(Head(vs)) THEN remove_aggregates(Tail(vs))
         ELSE <<Head(vs)>> \o remove_aggregates(Tail(vs))

(***************************************************************************)
(* Initial states and actions                                              *)
(***************************************************************************)
InitWith(inputs) ==
    /\ vaccinated \in inputs
    /\ op = "init"
    /\ status = "none"
    /\ result = <<>>
    /\ result2 = <<>>
    /\ dim = 0
    /\ dates_left = {}
    /\ aggs_left = <<>>
    /\ aggregate = <<>>
    /\ emitted = <<>>
    /\ deaggregates = <<>>

\* The exceptions a call can end with.
Exceptions == {"AssertionError", "IndexError", "ZeroDivisionError",
               "ValueError", "LinAlgError"}

FilterObs ==
    {Reported(p, d, 10, dose, grp, loc) :
        p \in {"daily", "weekly"}, d \in {7, 8, 9},
        dose \in {ALL, DOSE_1}, grp \in {ALL, "under_80"},
        loc \in {ALL, "england"}}

RemoveAggregates ==
    /\ op = "init"
    /\ op' = "remove_aggregates"
    /\ result' = remove_aggregates(vaccinated)
    /\ status' = "returned"
    /\ UNCHANGED <<vaccinated, result2, loopvars>>

RemoveAggregatesAgain ==
    /\ op = "remove_aggregates"
    /\ op' = "remove_aggregates_twice"
    /\ result2' = remove_aggregates(result)
    /\ UNCHANGED <<vaccinated, status, result, loopvars>>

InitFilter == InitWith(SeqsUpTo(FilterObs, MaxLenFilter))
NextFilter == RemoveAggregates \/ RemoveAggregatesAgain
SpecFilter == InitFilter /\ [][NextFilter]_vars

(***************************************************************************)
(* C5: remove_aggregates is a pure filter.  Its output is the             *)
(* sub-sequence of its input (same records, same order) made of exactly    *)
(* the observations that are non-wildcard on group, non-wildcard on dose,  *)
(* wildcard on location and not (weekly with real_date on or after the     *)
(* cutover 2021-01-09); no wildcard-group or wildcard-dose record is in    *)
(* the output.                                                             *)
(***************************************************************************)
Retained(v) ==
    /\ v.slice.group # ALL
    /\ v.slice.dose # ALL
    /\ v.slice.location = ALL
    /\ ~(v.source.period = "weekly" /\ v.source.real_date >= 8)

\* s is t with some elements left out, the rest in the same order.
RECURSIVE IsSubSeq(_, _)
IsSubSeq(s, t) ==
    IF s = <<>> THEN TRUE
    ELSE IF t = <<>> THEN FALSE
    ELSE IF Head(s) = Head(t) THEN IsSubSeq(Tail(s), Tail(t))
    ELSE IsSubSeq(s, Tail(t))

C5_PureFilter ==
    op \in {"remove_aggregates", "remove_aggregates_twice"} =>
        /\ status = "returned"
        /\ IsSubSeq(result, vaccinated)
        /\ result = SelectSeq(vaccinated, Retained)
        /\ \A i \in 1..Len(result) :
              result[i].slice.group # ALL /\ result[i].slice.dose # ALL

\* A call that kept one record and dropped a weekly record dated exactly at
\* the cutover, which a day earlier would have been kept.
C5_Witness ==
    /\ op = "remove_aggregates"
    /\ Len(vaccinated) = 2
    /\ Len(result) = 1
    /\ \E i \in 1..2 :
          /\ vaccinated[i].source.period = "weekly"
          /\ vaccinated[i].source.real_date = 8
          /\ Retained([vaccinated[i] EXCEPT !.source.real_date = 7])
          /\ vaccinated[i] \notin Range(result)

(***************************************************************************)
(* C10: remove_aggregates is idempotent: applied to its own output it      *)
(* returns the same observations in the same order.                        *)
(***************************************************************************)
C10_Idempotent ==
    op = "remove_aggregates_twice" => result2 = result

\* A second call made on an output that is non-empty and shorter than the input.
C10_Witness ==
    /\ op = "remove_aggregates_twice"
    /\ Len(result) >= 1
    /\ Len(result) < Len(vaccinated)
    /\ result2 = result

(***************************************************************************)
(* make_non_cumulative and make_cumulative                                 *)
(***************************************************************************)
\* {v.slice for v in vaccinated}
SlicesOf(vs) == {vs[i].slice : i \in 1..Len(vs)}

\* The orders in which a Python set may hand out its elements: the hash of a
\* slice changes from one interpreter run to the next, so any order can occur.
IterationOrders(S) ==
    {f \in [1..Cardinality(S) -> S] : \A i, j \in 1..Cardinality(S) : f[i] = f[j] => i = j}

\* [v for v in vaccinated if v.slice == slice_]
OfSlice(vs, slice_) ==
    LET Same(v) == v.slice = slice_ IN SelectSeq(vs, Same)

RECURSIVE InsertByRealDate(_, _)
InsertByRealDate(v, s) ==
    IF s = <<>> THEN <<v>>
    ELSE IF v.source.real_date <= Head(s).source.real_date THEN <<v>> \o s
    ELSE <<Head(s)>> \o InsertByRealDate(v, Tail(s))

\* sorted(vs, key=lambda v: v.source.real_date): ascending and stable.
RECURSIVE SortedByRealDate(_)
SortedByRealDate(vs) ==
    IF vs = <<>> THEN <<>>
    ELSE InsertByRealDate(Head(vs), SortedByRealDate(Tail(vs)))

\* The first differences taken in list order, the sort left out.
NonCumulativeOfSliceMutUnsorted(vaccinated_, slice_) ==
    LET vs == OfSlice(vaccinated_, slice_)
    IN  <<vs[1]>> \o
        [i \in 1..(Len(vs) - 1) |->
            [vs[i + 1] EXCEPT !.vaccinated = vs[i + 1].vaccinated - vs[i].vaccinated]]

\* What the body of `for slice_ in slices` yields in make_non_cumulative.
NonCumulativeOfSlice(vaccinated_, slice_) ==
    LET vs == SortedByRealDate(OfSlice(vaccinated_, slice_))
    IN  <<vs[1]>> \o
        [i \in 1..(Len(vs) - 1) |->
            [vs[i + 1] EXCEPT !.vaccinated = vs[i + 1].vaccinated - vs[i].vaccinated]]

\* `slices` is the set of slices in the order the loop visits it.
RECURSIVE make_non_cumulative(_, _)
make_non_cumulative(vaccinated_, slices) ==
    IF slices = <<>> THEN <<>>
    ELSE NonCumulativeOfSlice(vaccinated_, Head(slices))
         \o make_non_cumulative(vaccinated_, Tail(slices))

\* The value of `cumulative` after the first n elements of vs.
RECURSIVE Cumulative(_, _)
Cumulative(vs, n) ==
    IF n = 0 THEN 0 ELSE Cumulative(vs, n - 1) + vs[n].vaccinated

\* What the body of `for slice_ in slices` yields in make_cumulative.
CumulativeOfSlice(vaccinated_, slice_) ==
    LET vs == SortedByRealDate(OfSlice(vaccinated_, slice_))
    IN  [i \in 1..Len(vs) |-> [vs[i] EXCEPT !.vaccinated = Cumulative(vs, i)]]

RECURSIVE make_cumulative(_, _)
make_cumulative(vaccinated_, slices) ==
    IF slices = <<>> THEN <<>>
    ELSE CumulativeOfSlice(vaccinated_, Head(slices))
         \o make_cumulative(vaccinated_, Tail(slices))

CumulObs ==
    {Reported("daily", d, n, dose, "under_80", ALL) :
        d \in {1, 2, 3}, n \in {5, 8}, dose \in {DOSE_1, DOSE_2}}

MakeNonCumulative ==
    /\ op = "init"
    /\ op' = "make_non_cumulative"
    /\ \E slices \in IterationOrders(SlicesOf(vaccinated)) :
          result' = make_non_cumulative(vaccinated, slices)
    /\ status' = "returned"
    /\ UNCHANGED <<vaccinated, result2, loopvars>>

\* make_cumulative run on the list of what make_non_cumulative yielded.
MakeCumulative ==
    /\ op = "make_non_cumulative"
    /\ op' = "make_cumulative"
    /\ \E slices \in IterationOrders(SlicesOf(result)) :
          result2' = make_cumulative(result, slices)
    /\ UNCHANGED <<vaccinated, status, result, loopvars>>

InitCumul == InitWith(SeqsUpTo(CumulObs, MaxLenCumul))
NextCumul == MakeNonCumulative \/ MakeCumulative
SpecCumul == InitCumul /\ [][NextCumul]_vars

(***************************************************************************)
(* C6: for a collection in which each slice has distinct real_dates,       *)
(* make_cumulative(make_non_cumulative(X)) has as many observations as X   *)
(* and holds, for every slice and real_date of X, an observation with the  *)
(* count X had and every other field unchanged.                            *)
(***************************************************************************)
DistinctDatesPerSlice(vs) ==
    \A i, j \in 1..Len(vs) :
        (vs[i].slice = vs[j].slice /\ vs[i].source.real_date = vs[j].source.real_date)
            => i = j

WEEKS_12 == 84

SetMax(S) == CHOOSE x \in S : \A y \in S : y <= x

\* Positions of the dose-1 observations stored under `key` while the dict
\* comprehension runs over the list.
Dose1Positions(vs, key) ==
    {i \in 1..Len(vs) :
        /\ vs[i].slice.dose = DOSE_1
        /\ <<vs[i].source.real_date, vs[i].slice.location, vs[i].slice.group>> = key}

\* A lookup that keeps the first value stored under a key.
dose1s_by_date_sliceMutFirst(vs, key) ==
    vs[CHOOSE i \in Dose1Positions(vs, key) :
          \A j \in Dose1Positions(vs, key) : i <= j].vaccinated

\* dose1s_by_date_slice[key]: a later entry of the comprehension overwrites
\* an earlier one with the same key.
dose1s_by_date_slice(vs, key) ==
    vs[SetMax(Dose1Positions(vs, key))].vaccinated

\* What the loop body appends to new_vaccinated for v.
Dose2Floored(vs, v) ==
    IF v.slice.dose # DOSE_2 THEN v
    ELSE LET dose1_date == v.source.real_date - WEEKS_12
             key == <<dose1_date, v.slice.location, v.slice.group>>
         IN  IF Dose1Positions(vs, key) = {} THEN v
             ELSE LET dose1 == dose1s_by_date_slice(vs, key)
                  IN  [v EXCEPT
                         !.vaccinated = IF v.vaccinated >= dose1 THEN v.vaccinated ELSE dose1,
                         !.extrapolated = TRUE]

add_12w_dose_lag(vs) == [i \in 1..Len(vs) |-> Dose2Floored(vs, vs[i])]

LagObs ==
    {Reported(p, 0, n, DOSE_1, "under_80", ALL) :
        p \in {"daily", "weekly"}, n \in {800, 1000, 1200}}
    \cup {Reported("daily", 84, n, DOSE_2, "under_80", ALL) : n \in {800, 1000, 1200}}
    \cup {Reported("daily", 85, 800, DOSE_2, "under_80", ALL),
          Reported("daily", 84, 800, DOSE_2, "over_80", ALL),
          Reported("daily", 84, 800, ALL, "under_80", ALL),
          Reported("daily", 84, 1200, DOSE_1, "under_80", ALL)}

Add12wDoseLag ==
    /\ op = "init"
    /\ op' = "add_12w_dose_lag"
    /\ result' = add_12w_dose_lag(vaccinated)
    /\ status' = "returned"
    /\ UNCHANGED <<vaccinated, result2, loopvars>>

InitLag == InitWith(SeqsUpTo(LagObs, MaxLenLag))
NextLag == Add12wDoseLag
SpecLag == InitLag /\ [][NextLag]_vars

\* The dose-1 observations of vs dated 12 weeks before d2 at d2's location and group.
Dose1Before(vs, d2) ==
    {i \in 1..Len(vs) :
        /\ vs[i].slice.dose = "dose_1"
        /\ vs[i].source.real_date = d2.source.real_date - 84
        /\ vs[i].slice.location = d2.slice.location
        /\ vs[i].slice.group = d2.slice.group}

Larger(a, b) == IF a >= b THEN a ELSE b

\* Same length and order; everything but a dose-2 observation with a dose-1
\* observation 12 weeks earlier is unchanged.
LagFrame ==
    /\ status = "returned"
    /\ Len(result) = Len(vaccinated)
    /\ \A i \in 1..Len(vaccinated) :
          (vaccinated[i].slice.dose # "dose_2" \/ Dose1Before(vaccinated, vaccinated[i]) = {})
              => result[i] = vaccinated[i]

(***************************************************************************)
(* C7 as stated: besides the frame, every dose-2 observation with a dose-1 *)
(* observation d1 12 weeks earlier at its location and group becomes a     *)
(* copy with count max(d2.count, d1.count) and extrapolated = true, so     *)
(* that no dose-2 count in the output is below the count of ANY such       *)
(* dose-1 observation.                                                     *)
(***************************************************************************)
C7_AsStated ==
    op = "add_12w_dose_lag" =>
        /\ LagFrame
        /\ \A i \in 1..Len(vaccinated) :
              (vaccinated[i].slice.dose = "dose_2"
               /\ Dose1Before(vaccinated, vaccinated[i]) # {}) =>
                  /\ \E k \in Dose1Before(vaccinated, vaccinated[i]) :
                        result[i] = [vaccinated[i] EXCEPT
                            !.vaccinated = Larger(vaccinated[i].vaccinated,
                                                  vaccinated[k].vaccinated),
                            !.extrapolated = TRUE]
                  /\ \A k \in 1..Len(result) :
                        (/\ result[k].slice.dose = "dose_1"
                         /\ result[k].source.real_date = result[i].source.real_date - 84
                         /\ result[k].slice.location = result[i].slice.location
                         /\ result[k].slice.group = result[i].slice.group)
                            => result[i].vaccinated >= result[k].vaccinated

(***************************************************************************)
(* C7 as amended: besides the frame, every dose-2 observation with a       *)
(* dose-1 observation 12 weeks earlier at its location and group becomes a *)
(* copy with extrapolated = true and count max(d2.count, d1.count), where  *)
(* d1 is the LAST such dose-1 observation in input order; so no dose-2     *)
(* count in the output is below the count of that last dose-1              *)
(* observation (and of any of them when they all carry the same count).    *)
(***************************************************************************)
C7_LastDose1Wins ==
    op = "add_12w_dose_lag" =>
        /\ LagFrame
        /\ \A i \in 1..Len(vaccinated) :
              (vaccinated[i].slice.dose = "dose_2"
               /\ Dose1Before(vaccinated, vaccinated[i]) # {}) =>
                  LET last == CHOOSE k \in Dose1Before(vaccinated, vaccinated[i]) :
                                 \A j \in Dose1Before(vaccinated, vaccinated[i]) : j <= k
                  IN  /\ result[i] = [vaccinated[i] EXCEPT
                            !.vaccinated = Larger(vaccinated[i].vaccinated,
                                                  vaccinated[last].vaccinated),
                            !.extrapolated = TRUE]
                      /\ result[last] = vaccinated[last]
                      /\ result[i].vaccinated >= result[last].vaccinated

\* A dose-2 count of 800 raised to the 1000 of the last of two dose-1
\* observations 12 weeks earlier, the first of which says 800.
C7_Witness ==
    /\ op = "add_12w_dose_lag"
    /\ Len(vaccinated) = 3
    /\ \E i, j, k \in 1..3 :
          /\ j < k
          /\ vaccinated[i].slice.dose = "dose_2"
          /\ vaccinated[i].vaccinated = 800
          /\ Dose1Before(vaccinated, vaccinated[i]) = {j, k}
          /\ vaccinated[j].vaccinated = 800
          /\ vaccinated[k].vaccinated = 1000
          /\ result[i].vaccinated = 1000
          /\ result[i].extrapolated

(***************************************************************************)
(* add_dose_2_wait                                                         *)
(***************************************************************************)
DAYS_7 == 7

\* The copy appended to dose_2_wait for the dose-2 observation v, with the
\* test for the flag made with >= in place of >.
Dose2WaitMutInclusive(v, max_date) ==
    LET wait_date == v.source.real_date + DAYS_7
    IN  [v EXCEPT !.slice.dose = DOSE_2_PLUS_WAIT,
                  !.source.real_date = wait_date,
                  !.extrapolated = (wait_date >= max_date)]

\* The copy appended to dose_2_wait for the dose-2 observation v.
Dose2Wait(v, max_date) ==
    LET wait_date == v.source.real_date + DAYS_7
    IN  [v EXCEPT !.slice.dose = DOSE_2_PLUS_WAIT,
                  !.source.real_date = wait_date,
                  !.extrapolated = (wait_date > max_date)]

RECURSIVE dose_2_wait(_, _)
dose_2_wait(vs, max_date) ==
    IF vs = <<>> THEN <<>>
    ELSE IF Head(vs).slice.dose # DOSE_2 THEN dose_2_wait(Tail(vs), max_date)
    ELSE <<Dose2Wait(Head(vs), max_date)>> \o dose_2_wait(Tail(vs), max_date)

\* The dates max() is taken over on the first line of add_dose_2_wait.
NotExtrapolatedDates(vs) ==
    {vs[i].source.real_date : i \in {j \in 1..Len(vs) : ~vs[j].extrapolated}}

WaitObs ==
    {Vaccinated(Source("real", d, d, "daily"), 10,
                Slice(dose, "under_80", ALL), x, FALSE) :
        d \in {0, 7, 8}, dose \in {DOSE_1, DOSE_2}, x \in BOOLEAN}

\* max() of an empty sequence raises ValueError before anything is built.
AddDose2WaitRaises ==
    /\ op = "init"
    /\ NotExtrapolatedDates(vaccinated) = {}
    /\ op' = "add_dose_2_wait"
    /\ status' = "ValueError"
    /\ UNCHANGED <<vaccinated, result, result2, loopvars>>

AddDose2Wait ==
    /\ op = "init"
    /\ NotExtrapolatedDates(vaccinated) # {}
    /\ op' = "add_dose_2_wait"
    /\ result' = vaccinated
                 \o dose_2_wait(vaccinated, SetMax(NotExtrapolatedDates(vaccinated)))
    /\ status' = "returned"
    /\ UNCHANGED <<vaccinated, result2, loopvars>>

InitWait == InitWith(SeqsUpTo(WaitObs, MaxLenWait))
NextWait == AddDose2Wait \/ AddDose2WaitRaises
SpecWait == InitWait /\ [][NextWait]_vars

\* Positions of the dose-2 observations of vs.
Dose2Positions(vs) == {i \in 1..Len(vs) : vs[i].slice.dose = "dose_2"}

\* The k-th smallest element of a set of numbers.
RECURSIVE Kth(_, _)
Kth(S, k) ==
    LET least == CHOOSE x \in S : \A y \in S : x <= y
    IN  IF k = 1 THEN least ELSE Kth(S \ {least}, k - 1)

\* The returned collection is the input followed by one new observation per
\* input dose-2 observation, each as C8 describes it.
WaitReturned ==
    LET n == Len(vaccinated)
        d2s == Dose2Positions(vaccinated)
        plain == {vaccinated[i].source.real_date :
                     i \in {j \in 1..n : vaccinated[j].extrapolated = FALSE}}
    IN  /\ status = "returned"
        /\ Len(result) = n + Cardinality(d2s)
        /\ \A i \in 1..n : result[i] = vaccinated[i]
        /\ \A k \in 1..Cardinality(d2s) :
              LET old == vaccinated[Kth(d2s, k)]
                  new == result[n + k]
              IN  /\ new.slice = [old.slice EXCEPT !.dose = "dose_2_plus_wait"]
                  /\ new.vaccinated = old.vaccinated
                  /\ new.source = [old.source EXCEPT !.real_date = old.source.real_date + 7]
                  /\ new.interpolated = old.interpolated
                  /\ new.extrapolated =
                        (\A d \in plain : old.source.real_date + 7 > d)

WINDOW_DAYS == 7
LAST_WEEK == 51

Abs(n) == IF n < 0 THEN -n ELSE n

RECURSIVE Gcd(_, _)
Gcd(a, b) == IF b = 0 THEN a ELSE Gcd(b, a % b)

\* The float NaN: it is no number and every operation on it gives NaN.
NaN == [num |-> 0, den |-> 0]

Frac(n, d) ==
    IF d = 0 THEN NaN
    ELSE LET g == Gcd(Abs(n), Abs(d))
             sgn == IF d < 0 THEN -1 ELSE 1
         IN  [num |-> sgn * (n \div g), den |-> sgn * (d \div g)]

FracAdd(p, q) == Frac(p.num * q.den + q.num * p.den, p.den * q.den)
FracSub(p, q) == Frac(p.num * q.den - q.num * p.den, p.den * q.den)
FracMul(p, q) == Frac(p.num * q.num, p.den * q.den)
FracInt(n) == Frac(n, 1)

\* sum() of a sequence of numbers.
RECURSIVE Sum(_)
Sum(ns) == IF ns = <<>> THEN 0 ELSE Head(ns) + Sum(Tail(ns))

\* The test of the list comprehension, with the window one day longer.
InWindowMutInclusive(v, slice_, max_date) ==
    v.slice = slice_ /\ v.source.real_date >= max_date - WINDOW_DAYS

\* The test of the list comprehension that builds `array`.
InWindow(v, slice_, max_date) ==
    v.slice = slice_ /\ v.source.real_date > max_date - WINDOW_DAYS

\* `array`: the rows [days since max_date, count] of one slice.
WindowArray(vs, slice_, max_date) ==
    LET In(v) == InWindow(v, slice_, max_date)
        rows == SelectSeq(vs, In)
    IN  [i \in 1..Len(rows) |->
            <<rows[i].source.real_date - max_date, rows[i].vaccinated>>]

\* np.polyfit(x, y, 1) scales the columns [x, 1] to unit length and calls
\* lstsq.  A column of zeros (every x is 0) scales to NaN: LAPACK then either
\* fails, and lstsq raises LinAlgError, or hands the NaN through.
PolyfitOnNaN(array) == \A i \in 1..Len(array) : array[i][1] = 0

\* <<m, b>> of np.polyfit(x, y, 1): the least-squares line; when every x is
\* the same x0 # 0 the system has rank 1 and lstsq returns the solution of
\* least norm in the scaled unknowns, m = mean(y) / (2 x0), b = mean(y) / 2
\* (with a RankWarning, which is no error).
polyfit(array) ==
    LET n == Len(array)
        sx == Sum([i \in 1..n |-> array[i][1]])
        sy == Sum([i \in 1..n |-> array[i][2]])
        sxx == Sum([i \in 1..n |-> array[i][1] * array[i][1]])
        sxy == Sum([i \in 1..n |-> array[i][1] * array[i][2]])
        det == n * sxx - sx * sx
    IN  IF PolyfitOnNaN(array) THEN <<NaN, NaN>>
        ELSE IF det # 0
        THEN <<Frac(n * sxy - sx * sy, det), Frac(sy * sxx - sx * sxy, det)>>
        ELSE <<Frac(sy, 2 * n * array[1][1]), Frac(sy, 2 * n)>>

\* The predictions appended for one slice: none when the window holds at
\* most one row.
PredictionsOfSlice(vs, slice_, max_date) ==
    LET array == WindowArray(vs, slice_, max_date)
    IN  IF Len(array) <= 1 THEN <<>>
        ELSE LET mb == polyfit(array)
             IN  [plus_weeks \in 1..LAST_WEEK |->
                    LET real_date == max_date + 7 * plus_weeks
                    IN  Vaccinated(
                            Source("prediction", real_date, real_date, "daily"),
                            FracAdd(FracMul(mb[1], FracInt(plus_weeks * 7)), mb[2]),
                            slice_, TRUE, FALSE)]

RECURSIVE predictions(_, _, _)
predictions(vs, slices, max_date) ==
    IF slices = <<>> THEN <<>>
    ELSE PredictionsOfSlice(vs, Head(slices), max_date)
         \o predictions(vs, Tail(slices), max_date)

RealDates(vs) == {vs[i].source.real_date : i \in 1..Len(vs)}

\* Some slice reaches np.polyfit with rows whose x are all 0.
SomeFitOnNaN(vs) ==
    \E slice_ \in SlicesOf(vs) :
        LET array == WindowArray(vs, slice_, SetMax(RealDates(vs)))
        IN  Len(array) > 1 /\ PolyfitOnNaN(array)

ExtrapObs ==
    {Reported("daily", d, n, DOSE_1, "under_80", ALL) :
        d \in {0, 1, 4, 7}, n \in {100, 130}}
    \cup {Reported("weekly", 7, 130, DOSE_1, "under_80", ALL)}
    \cup {Reported("daily", d, 100, DOSE_2, "under_80", ALL) : d \in {1, 7}}

\* max() of an empty sequence raises ValueError.
AddExtrapolationsRaisesEmpty ==
    /\ op = "init"
    /\ vaccinated = <<>>
    /\ op' = "add_extrapolations"
    /\ status' = "ValueError"
    /\ UNCHANGED <<vaccinated, result, result2, loopvars>>

\* lstsq fails on the NaN column.
AddExtrapolationsRaisesFit ==
    /\ op = "init"
    /\ vaccinated # <<>>
    /\ SomeFitOnNaN(vaccinated)
    /\ op' = "add_extrapolations"
    /\ status' = "LinAlgError"
    /\ UNCHANGED <<vaccinated, result, result2, loopvars>>

AddExtrapolations ==
    /\ op = "init"
    /\ vaccinated # <<>>
    /\ op' = "add_extrapolations"
    /\ \E slices \in IterationOrders(SlicesOf(vaccinated)) :
          result' = vaccinated
                    \o predictions(vaccinated, slices, SetMax(RealDates(vaccinated)))
    /\ status' = "returned"
    /\ UNCHANGED <<vaccinated, result2, loopvars>>

InitExtrap == InitWith(SeqsUpTo(ExtrapObs, MaxLenExtrap))
NextExtrap ==
    AddExtrapolations \/ AddExtrapolationsRaisesEmpty \/ AddExtrapolationsRaisesFit
SpecExtrap == InitExtrap /\ [][NextExtrap]_vars

RECURSIVE SumFn(_, _)
SumFn(S, f) ==
    IF S = {} THEN 0
    ELSE LET i == CHOOSE j \in S : TRUE IN f[i] + SumFn(S \ {i}, f)

\* The global maximum real_date of the input.
LatestDate == CHOOSE d \in RealDates(vaccinated) : \A e \in RealDates(vaccinated) : e <= d

\* Positions of a slice's observations dated in the 7 days ending at LatestDate.
Trailing(sl) ==
    {i \in 1..Len(vaccinated) :
        /\ vaccinated[i].slice = sl
        /\ vaccinated[i].source.real_date \in (LatestDate - 6)..LatestDate}

\* Positions of the observations added for a slice.
Forecasts(sl) ==
    {j \in (Len(vaccinated) + 1)..Len(result) : result[j].slice = sl}

\* The line through the week-1 and week-2 forecasts of a slice, and whether
\* it is a least-squares line of the slice's trailing points (x = days since
\* LatestDate, y = count): the residuals sum to 0 and are orthogonal to x.
OnLeastSquaresLine(sl) ==
    LET at == [k \in 1..51 |->
                  result[CHOOSE j \in Forecasts(sl) :
                            result[j].source.real_date = LatestDate + 7 * k].vaccinated]
        m == FracMul(FracSub(at[2], at[1]), Frac(1, 7))
        b == FracSub(at[1], FracMul(m, FracInt(7)))
        T == Trailing(sl)
        x == [i \in T |-> vaccinated[i].source.real_date - LatestDate]
        y == [i \in T |-> vaccinated[i].vaccinated]
        sx == SumFn(T, x)
        sy == SumFn(T, y)
        sxx == SumFn(T, [i \in T |-> x[i] * x[i]])
        sxy == SumFn(T, [i \in T |-> x[i] * y[i]])
    IN  /\ \A k \in 1..51 : at[k] = FracAdd(FracMul(m, FracInt(7 * k)), b)
        /\ FracAdd(FracMul(m, FracInt(sx)), FracMul(b, FracInt(Cardinality(T))))
              = FracInt(sy)
        /\ FracAdd(FracMul(m, FracInt(sxx)), FracMul(b, FracInt(sx))) = FracInt(sxy)
        /\ (Cardinality(T) = 2 /\ \E i, j \in T : x[i] # x[j]) =>
              \A i \in T : FracAdd(FracMul(m, FracInt(x[i])), b) = FracInt(y[i])

\* A slice whose trailing observations, two or more, are all dated LatestDate.
AllOnLatestDate(sl) ==
    /\ Cardinality(Trailing(sl)) >= 2
    /\ \A i \in Trailing(sl) : vaccinated[i].source.real_date = LatestDate

FittedOrNaN(sl) ==
    IF AllOnLatestDate(sl)
    THEN \A j \in Forecasts(sl) : result[j].vaccinated = NaN
    ELSE OnLeastSquaresLine(sl)

\* The returned collection: the input, then 51 weekly forecasts for each
\* slice with two or more trailing observations and nothing for the others.
\* The counts of a forecast slice are on a least-squares line; unless `strict`,
\* they are NaN instead where the slice's trailing observations are all
\* dated LatestDate.
ExtrapolationsReturned(strict) ==
    LET n == Len(vaccinated)
        slices == {vaccinated[i].slice : i \in 1..n}
    IN  /\ status = "returned"
        /\ Len(result) >= n
        /\ \A i \in 1..n : result[i] = vaccinated[i]
        /\ \A j \in (n + 1)..Len(result) : result[j].slice \in slices
        /\ \A sl \in slices :
              IF Cardinality(Trailing(sl)) >= 2
              THEN /\ Cardinality(Forecasts(sl)) = 51
                   /\ \A k \in 1..51 :
                         Cardinality({j \in Forecasts(sl) :
                             result[j].source.real_date = LatestDate + 7 * k}) = 1
                   /\ \A j \in Forecasts(sl) :
                         /\ result[j].source.origin = "prediction"
                         /\ result[j].source.period = "daily"
                         /\ result[j].source.data_date = result[j].source.real_date
                         /\ result[j].extrapolated = TRUE
                   /\ IF strict THEN OnLeastSquaresLine(sl) ELSE FittedOrNaN(sl)
              ELSE Forecasts(sl) = {}

Dim(v, d) == v.slice[d]

\* other_dims = [d for d in __SLICE_DIMS if d != dim]
OtherDims(d) == {o \in Range(__SLICE_DIMS) : o # d}

vaccinated_daily(vs) ==
    LET Daily(v) == v.source.period = "daily" IN SelectSeq(vs, Daily)

\* {v.source.real_date for v in vaccinated_daily}
DailyDates(vs) == RealDates(vaccinated_daily(vs))

vaccinated_on_date(vs, real_date) ==
    LET On(v) == v.source.real_date = real_date
    IN  SelectSeq(vaccinated_daily(vs), On)

\* aggregates = [v for v in vaccinated_on_date if getattr(v.slice, dim).is_all()]
aggregates(vs, d, real_date) ==
    LET Agg(v) == IsAll(Dim(v, d)) IN SelectSeq(vaccinated_on_date(vs, real_date), Agg)

\* The list `unaggregates` built for one aggregate: the generic test on the
\* other two dimensions and, after it, the two comparisons of group and
\* location that the code makes whatever `dim` is.
unaggregates(vs, agg, d) ==
    LET Peer(v) ==
            /\ ~IsAll(Dim(v, d))
            /\ \A other_dim \in OtherDims(d) :
                  Dim(v, other_dim) = Dim(agg, other_dim) /\ ~IsAll(Dim(v, other_dim))
            /\ v.slice.group = agg.slice.group
            /\ v.slice.location = agg.slice.location
    IN  SelectSeq(vaccinated_on_date(vs, agg.source.real_date), Peer)

Counts(vs) == [i \in 1..Len(vs) |-> vs[i].vaccinated]

\* The assert of add_deaggregates: "ok", or the exception it ends with.
\* The right operand of `or` is evaluated only when the left one is false,
\* and divides by unaggregate_sum.
ConsistencyCheck(agg, peers) ==
    LET unaggregate_sum == Sum(Counts(peers))
        difference == Abs(agg.vaccinated - unaggregate_sum)
    IN  IF difference < 1000 THEN "ok"
        ELSE IF unaggregate_sum = 0 THEN "ZeroDivisionError"
        ELSE IF unaggregate_sum < 0 \/ 20 * difference < unaggregate_sum THEN "ok"
        ELSE "AssertionError"

\* vaccinated_weekly of deaggregate_with_interpolation.
vaccinated_weekly(vs, agg, d) ==
    LET Sample(v) ==
            /\ v.source.period = "weekly"
            /\ ~IsAll(Dim(v, d))
            /\ \A other_dim \in OtherDims(d) : Dim(v, other_dim) = Dim(agg, other_dim)
    IN  SelectSeq(vs, Sample)

\* The lists `dates` can be after sorted(set, key=distance)[:2] and the final
\* sort: dates at the same distance keep the order the set hands them out in,
\* which is any order.
NearestDates(weekly, real_date) ==
    LET all == RealDates(weekly)
        Dist(x) == Abs(x - real_date)
    IN  IF Cardinality(all) = 1 THEN {<<x>> : x \in all}
        ELSE {<<x, y>> : x \in all, y \in all} \cap
             {p \in Seq(all) : /\ Len(p) = 2
                               /\ p[1] < p[2]
                               /\ \A e \in all \ {p[1], p[2]} :
                                     Dist(e) >= Dist(p[1]) /\ Dist(e) >= Dist(p[2])}

\* sum(v for d, ddate, v in dim_date_vaccinated if ddate == on and d == dim_value)
SumOfValue(weekly, d, dim_value, on) ==
    LET Is(v) == v.source.real_date = on /\ Dim(v, d) = dim_value
    IN  Sum(Counts(SelectSeq(weekly, Is)))

\* sum(v for _, ddate, v in dim_date_vaccinated if ddate == on)
SumOnDate(weekly, on) ==
    LET Is(v) == v.source.real_date = on IN Sum(Counts(SelectSeq(weekly, Is)))

\* int(x): the fraction cut toward zero.
int_(x) == IF x.num < 0 THEN -((-x.num) \div x.den) ELSE x.num \div x.den

\* The observation yielded for one dim_value.
Deaggregate(weekly, agg, d, dates, dim_value) ==
    LET ratio0 == Frac(SumOfValue(weekly, d, dim_value, dates[1]),
                       SumOnDate(weekly, dates[1]))
        ratio1 == Frac(SumOfValue(weekly, d, dim_value, dates[2]),
                       SumOnDate(weekly, dates[2]))
        ratio_delta_per_day == FracMul(FracSub(ratio1, ratio0),
                                       Frac(1, dates[2] - dates[1]))
        ratio == FracAdd(ratio0,
                    FracMul(ratio_delta_per_day,
                            FracInt(agg.source.data_date - dates[1])))
    IN  Vaccinated(agg.source,
                   int_(FracMul(FracInt(agg.vaccinated), ratio)),
                   [agg.slice EXCEPT ![d] = dim_value],
                   FALSE, TRUE)

\* How one call of deaggregate_with_interpolation can end: the exception
\* ("none" when there is none) and the list of what it yielded.  ratio0 is
\* computed before ratio1 touches dates[1], and both divisors are the same
\* for every dim_value, so an exception comes before the first yield.
deaggregate_with_interpolation(agg, d, vs) ==
    LET weekly == vaccinated_weekly(vs, agg, d)
        values == {Dim(weekly[i], d) : i \in 1..Len(weekly)}
    IN  IF Len(weekly) < 2 THEN {[raised |-> "none", yielded |-> <<>>]}
        ELSE UNION {
            IF SumOnDate(weekly, dates[1]) = 0
            THEN {[raised |-> "ZeroDivisionError", yielded |-> <<>>]}
            ELSE IF Len(dates) < 2
            THEN {[raised |-> "IndexError", yielded |-> <<>>]}
            ELSE IF SumOnDate(weekly, dates[2]) = 0
            THEN {[raised |-> "ZeroDivisionError", yielded |-> <<>>]}
            ELSE {[raised |-> "none",
                   yielded |-> [k \in 1..Len(order) |->
                                   Deaggregate(weekly, agg, d, dates, order[k])]] :
                     order \in IterationOrders(values)}
            : dates \in NearestDates(weekly, agg.source.real_date)}

DeaggStart ==
    /\ op = "init"
    /\ op' = "add_deaggregates"
    /\ status' = "running"
    /\ dim' = 1
    /\ dates_left' = DailyDates(vaccinated)
    /\ UNCHANGED <<vaccinated, result, result2, aggs_left, aggregate, emitted,
                   deaggregates>>

\* The next real_date of the set, in whatever order the set hands it out.
DeaggNextDate ==
    /\ op = "add_deaggregates" /\ status = "running"
    /\ aggs_left = <<>>
    /\ \E real_date \in dates_left :
          /\ dates_left' = dates_left \ {real_date}
          /\ aggs_left' = aggregates(vaccinated, __SLICE_DIMS[dim], real_date)
    /\ aggregate' = <<>>
    /\ emitted' = <<>>
    /\ UNCHANGED <<vaccinated, op, status, result, result2, dim, deaggregates>>

DeaggNextDim ==
    /\ op = "add_deaggregates" /\ status = "running"
    /\ aggs_left = <<>> /\ dates_left = {}
    /\ dim < Len(__SLICE_DIMS)
    /\ dim' = dim + 1
    /\ dates_left' = DailyDates(vaccinated)
    /\ aggregate' = <<>>
    /\ emitted' = <<>>
    /\ UNCHANGED <<vaccinated, op, status, result, result2, aggs_left, deaggregates>>

\* The loop body for an aggregate without unaggregates, the call not raising.
DeaggInterpolate ==
    /\ op = "add_deaggregates" /\ status = "running"
    /\ aggs_left # <<>>
    /\ unaggregates(vaccinated, Head(aggs_left), __SLICE_DIMS[dim]) = <<>>
    /\ \E end \in deaggregate_with_interpolation(Head(aggs_left), __SLICE_DIMS[dim],
                                                 vaccinated) :
          /\ end.raised = "none"
          /\ emitted' = end.yielded
          /\ deaggregates' = deaggregates \o end.yielded
    /\ aggregate' = <<Head(aggs_left)>>
    /\ aggs_left' = Tail(aggs_left)
    /\ UNCHANGED <<vaccinated, op, status, result, result2, dim, dates_left>>

\* The same, the call raising: nothing catches it and the run ends.
DeaggInterpolateRaises ==
    /\ op = "add_deaggregates" /\ status = "running"
    /\ aggs_left # <<>>
    /\ unaggregates(vaccinated, Head(aggs_left), __SLICE_DIMS[dim]) = <<>>
    /\ \E end \in deaggregate_with_interpolation(Head(aggs_left), __SLICE_DIMS[dim],
                                                 vaccinated) :
          /\ end.raised # "none"
          /\ status' = end.raised
    /\ aggregate' = <<Head(aggs_left)>>
    /\ aggs_left' = Tail(aggs_left)
    /\ emitted' = <<>>
    /\ UNCHANGED <<vaccinated, op, result, result2, dim, dates_left, deaggregates>>

\* The loop body for an aggregate with unaggregates, the assert passing.
DeaggPeersAgree ==
    /\ op = "add_deaggregates" /\ status = "running"
    /\ aggs_left # <<>>
    /\ LET peers == unaggregates(vaccinated, Head(aggs_left), __SLICE_DIMS[dim])
       IN  peers # <<>> /\ ConsistencyCheck(Head(aggs_left), peers) = "ok"
    /\ aggregate' = <<Head(aggs_left)>>
    /\ aggs_left' = Tail(aggs_left)
    /\ emitted' = <<>>
    /\ UNCHANGED <<vaccinated, op, status, result, result2, dim, dates_left,
                   deaggregates>>

\* The same, the assert failing or its division raising: the run ends.
DeaggPeersDisagree ==
    /\ op = "add_deaggregates" /\ status = "running"
    /\ aggs_left # <<>>
    /\ LET peers == unaggregates(vaccinated, Head(aggs_left), __SLICE_DIMS[dim])
       IN  /\ peers # <<>>
           /\ ConsistencyCheck(Head(aggs_left), peers) # "ok"
           /\ status' = ConsistencyCheck(Head(aggs_left), peers)
    /\ aggregate' = <<Head(aggs_left)>>
    /\ aggs_left' = Tail(aggs_left)
    /\ emitted' = <<>>
    /\ UNCHANGED <<vaccinated, op, result, result2, dim, dates_left, deaggregates>>

\* return vaccinated + deaggregates
DeaggReturn ==
    /\ op = "add_deaggregates" /\ status = "running"
    /\ aggs_left = <<>> /\ dates_left = {}
    /\ dim = Len(__SLICE_DIMS)
    /\ status' = "returned"
    /\ result' = vaccinated \o deaggregates
    /\ aggregate' = <<>>
    /\ emitted' = <<>>
    /\ UNCHANGED <<vaccinated, op, result2, dim, dates_left, aggs_left, deaggregates>>

\* Daily observations on day 3 (and one on day 7): aggregates on each
\* dimension and observations that are non-wildcard on all three.
DailyObs ==
    {Reported("daily", 3, n, ALL, "under_80", "england") : n \in {100, 21000}}
    \cup {Vaccinated(Source("real", 4, 3, "daily"), 100,
                     Slice(ALL, "under_80", "england"), FALSE, FALSE),
          Reported("daily", 7, 100, ALL, "under_80", "england"),
          Reported("daily", 3, 100, DOSE_1, "under_80", ALL),
          Reported("daily", 3, 100, DOSE_2, "under_80", "england")}
    \cup {Reported("daily", 3, n, DOSE_1, ALL, "england") : n \in {100, 21000}}
    \cup {Reported("daily", 3, n, DOSE_1, "under_80", "england") :
            n \in {0, 100, 20000, 22000}}

Weekly(day, n, dose) == Reported("weekly", day, n, dose, "under_80", "england")

\* The weekly samples: none, one, two of one date, two dates, two dates of
\* which one holds only zeros, three dates.
WeeklyTables ==
    {<<>>,
     <<Weekly(0, 60, DOSE_1)>>,
     <<Weekly(0, 60, DOSE_1), Weekly(0, 40, DOSE_2)>>,
     <<Weekly(0, 60, DOSE_1), Weekly(0, 40, DOSE_2),
       Weekly(7, 45, DOSE_1), Weekly(7, 55, DOSE_2)>>,
     <<Weekly(0, 0, DOSE_1), Weekly(0, 0, DOSE_2),
       Weekly(7, 45, DOSE_1), Weekly(7, 55, DOSE_2)>>,
     <<Weekly(0, 60, DOSE_1), Weekly(0, 40, DOSE_2),
       Weekly(7, 45, DOSE_1), Weekly(7, 55, DOSE_2),
       Weekly(14, 30, DOSE_1), Weekly(14, 70, DOSE_2)>>}

DeaggInputs ==
    {daily \o weekly : daily \in SeqsUpTo(DailyObs, MaxDaily), weekly \in WeeklyTables}

InitDeagg == InitWith(DeaggInputs)
NextDeagg ==
    \/ DeaggStart
    \/ DeaggNextDate
    \/ DeaggNextDim
    \/ DeaggInterpolate
    \/ DeaggInterpolateRaises
    \/ DeaggPeersAgree
    \/ DeaggPeersDisagree
    \/ DeaggReturn
SpecDeagg == InitDeagg /\ [][NextDeagg]_vars

\* The loop body of add_deaggregates has just run for the aggregate Handled
\* on the dimension HandledDim.
JustHandled == op = "add_deaggregates" /\ aggregate # <<>>
Handled == aggregate[1]
HandledDim == __SLICE_DIMS[dim]

\* Positions of the peers of an aggregate on dimension d: the daily
\* observations of its real_date that are non-wildcard on d and equal the
\* aggregate on the other two dimensions, both non-wildcard.
Peers(a, d) ==
    {i \in 1..Len(vaccinated) :
        /\ vaccinated[i].source.period = "daily"
        /\ vaccinated[i].source.real_date = a.source.real_date
        /\ vaccinated[i].slice[d] # ALL
        /\ \A o \in {"dose", "group", "location"} \ {d} :
              vaccinated[i].slice[o] = a.slice[o] /\ vaccinated[i].slice[o] # ALL}

\* Positions of the weekly observations that match an aggregate's fixed
\* dimensions and are non-wildcard on d.
Samples(a, d) ==
    {i \in 1..Len(vaccinated) :
        /\ vaccinated[i].source.period = "weekly"
        /\ vaccinated[i].slice[d] # ALL
        /\ \A o \in {"dose", "group", "location"} \ {d} :
              vaccinated[i].slice[o] = a.slice[o]}

SampleDates(a, d) == {vaccinated[i].source.real_date : i \in Samples(a, d)}

(***************************************************************************)
(* C1: for every dimension d and every daily aggregate wildcard on d with  *)
(* at least one peer, nothing is emitted for that aggregate on d: the      *)
(* loop body emits no observation, and the returned collection holds no    *)
(* interpolated observation of the aggregate's source whose slice is the   *)
(* aggregate's slice with d set to a concrete value.                       *)
(***************************************************************************)
C1_NoEmissionWithPeers ==
    /\ (JustHandled /\ Peers(Handled, HandledDim) # {}) => emitted = <<>>
    /\ (op = "add_deaggregates" /\ status = "returned") =>
          \A i \in 1..Len(vaccinated) : \A d \in {"dose", "group", "location"} :
              (/\ vaccinated[i].source.period = "daily"
               /\ vaccinated[i].slice[d] = ALL
               /\ Peers(vaccinated[i], d) # {}) =>
                  \A j \in (Len(vaccinated) + 1)..Len(result) :
                      ~(/\ result[j].interpolated
                        /\ result[j].source = vaccinated[i].source
                        /\ result[j].slice[d] # ALL
                        /\ result[j].slice = [vaccinated[i].slice EXCEPT ![d] = result[j].slice[d]])

(***************************************************************************)
(* C2: for every dimension d and every daily aggregate wildcard on d with  *)
(* at least one peer: if |aggregate.count - sum of peer counts| >= 1000    *)
(* and that difference over the sum is >= 0.05 the run aborts and returns  *)
(* no collection; if the difference is < 1000 or the relative difference   *)
(* is < 0.05 no error is raised for that aggregate.  (Nothing is said      *)
(* here of a sum of 0, where the relative difference is undefined.)        *)
(***************************************************************************)
C2_ConsistencyAbort ==
    (JustHandled /\ Peers(Handled, HandledDim) # {}) =>
        LET total == SumFn(Peers(Handled, HandledDim),
                           [i \in Peers(Handled, HandledDim) |-> vaccinated[i].vaccinated])
            gap == IF Handled.vaccinated >= total THEN Handled.vaccinated - total
                   ELSE total - Handled.vaccinated
        IN  /\ (gap >= 1000 /\ total > 0 /\ 20 * gap >= total) =>
                  (status \in Exceptions /\ result = <<>>)
            /\ (gap < 1000 \/ (total > 0 /\ 20 * gap < total)) => status = "running"

(***************************************************************************)
(* C3: when an aggregate has no peers and its matching weekly observations *)
(* cover fewer than 2 distinct real_dates (two or more observations of one *)
(* date included), the step is a non-fatal skip: nothing is emitted, no    *)
(* error is raised and add_deaggregates goes on.                           *)
(***************************************************************************)
C3_SkipOnFewDates ==
    (/\ JustHandled
     /\ Peers(Handled, HandledDim) = {}
     /\ Cardinality(SampleDates(Handled, HandledDim)) < 2) =>
        /\ emitted = <<>>
        /\ status = "running"

\* The count C4 gives the value v of dimension d for aggregate a, from the
\* weekly dates d0 < d1: trunc(a.count * (ratio0 + (ratio1 - ratio0) /
\* (d1 - d0) * (a.data_date - d0))).  Only for non-zero weekly totals.
WeeklyCount(a, d, day, values) ==
    LET S == {i \in Samples(a, d) : /\ vaccinated[i].source.real_date = day
                                    /\ vaccinated[i].slice[d] \in values}
    IN  SumFn(S, [i \in S |-> vaccinated[i].vaccinated])

Share(a, d, v, d0, d1) ==
    LET every == {vaccinated[i].slice[d] : i \in Samples(a, d)}
        ratio0 == Frac(WeeklyCount(a, d, d0, {v}), WeeklyCount(a, d, d0, every))
        ratio1 == Frac(WeeklyCount(a, d, d1, {v}), WeeklyCount(a, d, d1, every))
        exact == FracMul(FracInt(a.vaccinated),
                    FracAdd(ratio0,
                        FracMul(FracMul(FracSub(ratio1, ratio0), Frac(1, d1 - d0)),
                                FracInt(a.source.data_date - d0))))
    IN  IF exact.num >= 0 THEN exact.num \div exact.den
        ELSE -((-exact.num) \div exact.den)

\* `emitted` is what C4 describes for aggregate a on dimension d.
EmittedAsInterpolated(a, d) ==
    LET dates == SampleDates(a, d)
        every == {vaccinated[i].slice[d] : i \in Samples(a, d)}
        Far(x) == IF x >= a.source.real_date THEN x - a.source.real_date
                  ELSE a.source.real_date - x
    IN  \E d0, d1 \in dates :
          /\ d0 < d1
          /\ \A e \in dates \ {d0, d1} : Far(e) >= Far(d0) /\ Far(e) >= Far(d1)
          /\ WeeklyCount(a, d, d0, every) # 0
          /\ WeeklyCount(a, d, d1, every) # 0
          /\ Len(emitted) = Cardinality(every)
          /\ \A v \in every : \E k \in 1..Len(emitted) :
                emitted[k] = [source |-> a.source,
                              vaccinated |-> Share(a, d, v, d0, d1),
                              slice |-> [a.slice EXCEPT ![d] = v],
                              extrapolated |-> FALSE,
                              interpolated |-> TRUE]

(***************************************************************************)
(* C4: for a daily aggregate wildcard on d with no peers and at least 2    *)
(* distinct matching weekly dates, the two weekly dates nearest to its     *)
(* real_date are taken as (date0, date1) and exactly one observation is    *)
(* emitted per dimension value v, with the aggregate's source,             *)
(* interpolated = true, the aggregate's slice with d set to v, and count   *)
(* trunc(count * (ratio0 + (ratio1 - ratio0) / (date1 - date0).days *      *)
(* (data_date - date0).days)), ratio_t being v's share of the weekly total *)
(* of date t.                                                              *)
(***************************************************************************)
C4_Interpolation ==
    (/\ JustHandled
     /\ Peers(Handled, HandledDim) = {}
     /\ Cardinality(SampleDates(Handled, HandledDim)) >= 2) =>
        /\ status = "running"
        /\ EmittedAsInterpolated(Handled, HandledDim)

(***************************************************************************)
(* What does hold of the loop body, stated to delimit the four claims      *)
(* above: on the dose dimension C1 and C2 hold as stated; and C4 holds     *)
(* whenever every matching weekly date has a non-zero total.               *)
(***************************************************************************)
DoseStepsAsClaimed ==
    (JustHandled /\ HandledDim = "dose" /\ Peers(Handled, "dose") # {}) =>
        /\ emitted = <<>>
        /\ C2_ConsistencyAbort

InterpolationWhereDefined ==
    (/\ JustHandled
     /\ Peers(Handled, HandledDim) = {}
     /\ Cardinality(SampleDates(Handled, HandledDim)) >= 2
     /\ \A day \in SampleDates(Handled, HandledDim) :
           WeeklyCount(Handled, HandledDim, day,
               {vaccinated[i].slice[HandledDim] : i \in Samples(Handled, HandledDim)}) # 0) =>
        /\ status = "running"
        /\ EmittedAsInterpolated(Handled, HandledDim)

\* The spec's example: an aggregate of 100 on day 3 between the weekly
\* samples 60/40 of day 0 and 45/55 of day 7 gives dose 1 the count 53.
InterpolationExample ==
    /\ JustHandled
    /\ HandledDim = "dose"
    /\ Handled.vaccinated = 100
    /\ Handled.source.data_date = 3
    /\ Len(emitted) = 2
    /\ \E k \in 1..2 : emitted[k].slice.dose = "dose_1" /\ emitted[k].vaccinated = 53
====
